---- MODULE Spec2Model ----
(***************************************************************************)
(* A model of vw-offline-manual-creator.py: the recursive assembly of the  *)
(* manual (build_dom and the top-level loop), the placeholder substitution *)
(* (replace_in_template), the rewrite of the links of the parsed document, *)
(* and the download of the page resources.                                 *)
(*                                                                         *)
(* Text.  A Python str is modelled as a sequence of tokens; a token is a   *)
(* piece of text that the program never looks inside ("<li>", "n1",        *)
(* "TOPIC_ID") or one of the delimiters the program searches for ("{{",    *)
(* "}}", "#", "?", "key=", "<html>", "</html>").  Concatenation is \o,     *)
(* and str.replace, slicing and splitting work on whole tokens.            *)
(***************************************************************************)
EXTENDS Integers, Sequences, FiniteSets, TLC

\* Python's None: a value different from every str of the model.
None == <<"<None>">>

\* ------------------------------------------------------------------ bounds

\* The largest number of topics (nodes) of the topic forest.
MaxNodes == 3

\* The largest number of a elements of the document.
MaxLinks == 2

\* The largest number of img elements of the document.
MaxImgs == 2

\* The largest number of link elements of the online page.
MaxSheets == 2

\* The largest number of pieces of a template, and of items of a dictionary
\* of replacements.
MaxPieces == 2
MaxItems == 2
MaxRefs == 2
MaxRefLen == 3

\* ------------------------------------------------------------------- text

\* s[i:] of Python, i counted from 0.
SliceFrom(s, i) == SubSeq(s, i + 1, Len(s))

\* s.startswith(p)
StartsWith(s, p) == Len(s) >= Len(p) /\ SubSeq(s, 1, Len(p)) = p

\* p in s, for a one-token p
HasToken(s, t) == \E i \in 1..Len(s) : s[i] = t

\* str.replace(old, new): every non-overlapping occurrence of old, found
\* from left to right, is replaced by new; the text of new is not rescanned.
RECURSIVE StrReplace(_, _, _)
StrReplace(s, old, new) ==
    IF Len(s) < Len(old) THEN s
    ELSE IF SubSeq(s, 1, Len(old)) = old
         THEN new \o StrReplace(SliceFrom(s, Len(old)), old, new)
         ELSE <<s[1]>> \o StrReplace(Tail(s), old, new)

\* '{{'+k+'}}'
Mustache(k) == <<"{{">> \o k \o <<"}}">>

\* A dictionary of replacements is the sequence of its (key, value) items in
\* insertion order, the order in which dict.items() yields them.
DictKeys(d) == {d[i][1] : i \in 1..Len(d)}

\* d[k] = v: an existing key keeps its place, a new key goes last.
DictSet(d, k, v) ==
    IF k \in DictKeys(d)
    THEN [i \in 1..Len(d) |-> IF d[i][1] = k THEN <<k, v>> ELSE d[i]]
    ELSE Append(d, <<k, v>>)

\* replace_in_template with the loop over the first n items done.
RECURSIVE ReplaceItems(_, _, _)
ReplaceItems(template_str, dict_replace, n) ==
    IF n = 0 THEN template_str
    ELSE StrReplace(ReplaceItems(template_str, dict_replace, n - 1),
                    Mustache(dict_replace[n][1]), dict_replace[n][2])

replace_in_template(template_str, dict_replace) ==
    ReplaceItems(template_str, dict_replace, Len(dict_replace))

\* The five templates of the templates/ directory, read at lines 254-256.
\* Each holds the placeholders that build_dom and the top level give values
\* for, each once, the entry's own fields before its children.
templates ==
    [index |->
        <<"<html>">> \o Mustache(<<"TOC_CONTENT">>)
            \o Mustache(<<"USERGUIDE_CONTENT">>) \o <<"</html>">>,
     topic_w_children |->
        <<"<sec>">> \o Mustache(<<"TOPIC_ID">>) \o Mustache(<<"TOPIC_TITLE">>)
            \o Mustache(<<"TOPIC_CHILDREN">>) \o <<"</sec>">>,
     topic_wo_children |->
        <<"<art>">> \o Mustache(<<"TOPIC_ID">>) \o Mustache(<<"TOPIC_LINK">>)
            \o Mustache(<<"TOPIC_TITLE">>) \o Mustache(<<"TOPIC_CONTENT">>)
            \o <<"</art>">>,
     toc_w_children |->
        <<"<li>">> \o Mustache(<<"TOPIC_ID">>) \o Mustache(<<"TOPIC_TITLE">>)
            \o <<"<ul>">> \o Mustache(<<"TOC_CHILDREN">>) \o <<"</ul>">>,
     toc_wo_children |->
        <<"<li>">> \o Mustache(<<"TOPIC_ID">>) \o Mustache(<<"TOPIC_LINK">>)
            \o Mustache(<<"TOPIC_TITLE">>) \o <<"</li>">>]

\* --------------------------------------------------------- the topic forest

\* The tokens of the node ids and of the content keys of the topics, by the
\* topic's place in the forest (document order).
IdTok == <<"n1", "n2", "n3", "n4", "n5", "n6">>
KeyTok == <<"k1", "k2", "k3", "k4", "k5", "k6">>

\* The shapes of the forests of n topics: the depth of each topic, in document
\* order (a topic is a child of the nearest earlier topic one level up).
DepthSeqs(n) ==
    {d \in [1..n -> 0..(n - 1)] :
        /\ d[1] = 0
        /\ \A i \in 1..(n - 1) : d[i + 1] <= d[i] + 1}

\* The last topic of the subtree of topic i.
SubtreeEnd(d, i) ==
    CHOOSE j \in i..Len(d) :
        /\ \A k \in (i + 1)..j : d[k] > d[i]
        /\ (j = Len(d) \/ d[j + 1] <= d[i])

ChildIndexes(d, i) == {j \in (i + 1)..SubtreeEnd(d, i) : d[j] = d[i] + 1}

RootIndexes(d) == {j \in 1..Len(d) : d[j] = 0}

RECURSIVE SortedSeq(_)
SortedSeq(S) ==
    IF S = {} THEN <<>>
    ELSE LET m == CHOOSE x \in S : \A y \in S : x <= y
         IN  <<m>> \o SortedSeq(S \ {m})

\* The title of a topic: plain text, or a text that spells a placeholder.
PlainTitle == <<"title">>
MustacheTitle == Mustache(<<"TOC_CHILDREN">>)

\* The topic at place i of the forest of shape d: a JSON object of the API,
\* with its keys 'nodeId', 'label', 'linkTarget' and 'children'.
RECURSIVE MkTopic(_, _, _, _)
MkTopic(d, linked, odd, i) ==
    LET kids == SortedSeq(ChildIndexes(d, i))
    IN  [nodeId     |-> <<IdTok[i]>>,
         label      |-> IF i = odd THEN MustacheTitle ELSE PlainTitle,
         linkTarget |-> IF linked[i] THEN <<KeyTok[i]>> ELSE <<>>,
         children   |-> [c \in 1..Len(kids) |-> MkTopic(d, linked, odd, kids[c])]]

MkForest(d, linked, odd) ==
    LET roots == SortedSeq(RootIndexes(d))
    IN  [r \in 1..Len(roots) |-> MkTopic(d, linked, odd, roots[r])]

\* The forests of at most n topics: every shape, every topic with or without
\* a content key, at most one topic with a title that spells a placeholder.
Forests(n) ==
    UNION {UNION {{MkForest(d, linked, odd) :
                       linked \in [1..m -> BOOLEAN], odd \in 0..m} :
                  d \in DepthSeqs(m)} : m \in 1..n}

\* ------------------------------------------------------ the content fetcher

\* What the API answers to the request of a topic's content (lines 118-124):
\* an HTTP error status, or a JSON object with 'bodyHtml' and 'linkState'.
\* The body comes bare, wrapped in an html element, or holding a closing
\* html tag without starting with the opening one.
Responses ==
    {[status |-> "HTTPError", bodyHtml |-> <<>>, linkState |-> <<>>],
     [status |-> "ok", bodyHtml |-> <<"<p>A</p>">>,
      linkState |-> [a \in {"a1"} |-> [target |-> <<"t1">>]]],
     [status |-> "ok", bodyHtml |-> <<"<html>", "<p>B</p>", "</html>", "\n">>,
      linkState |-> [a \in {"a2"} |-> [target |-> None]]],
     [status |-> "ok", bodyHtml |-> <<"<p>C</p>">>,
      linkState |-> [a \in {"a1", "a3"} |->
                        [target |-> IF a = "a1" THEN <<"t2">> ELSE <<"t3">>]]],
     [status |-> "ok", bodyHtml |-> <<"\n", "<html>", "<p>D</p>", "</html>">>,
      linkState |-> <<>>]}

\* re.match(r'<html[^>]*>(.*)</html>', content, re.DOTALL) finds nothing:
\* the content does not start with the opening tag (.group then raises
\* AttributeError).
UnwrapRaises(content) ==
    HasToken(content, "</html>") /\ content[1] # "<html>"

\* Lines 122-123: of a content that holds '</html>', what lies between the
\* opening tag at its start and its last '</html>'.
Unwrap(content) ==
    IF HasToken(content, "</html>")
    THEN LET last == CHOOSE i \in 1..Len(content) :
                        /\ content[i] = "</html>"
                        /\ \A j \in (i + 1)..Len(content) : content[j] # "</html>"
         IN  SubSeq(content, 2, last - 1)
    ELSE content

\* dict.update.  A mutant forgets what the dictionary held.
DictReplaced(d, e) == e

\* dict.update
DictUpdate(d, e) ==
    [k \in DOMAIN d \cup DOMAIN e |-> IF k \in DOMAIN e THEN e[k] ELSE d[k]]

\* ------------------------------------------------------------------ state

VARIABLES
    ug_json,          \* the topic forest, j4['trees'][0]['children'] (line 261)
    crash_on_error,   \* the parameter of line 65
    toc_position,     \* the parameter of line 57
    extend_mode,      \* the parameter of line 51
    r2_url,           \* the address the login of line 197 ended at
    pc,               \* the section of the script that runs, or how it ended
    stack,            \* the calls of build_dom in progress, the newest last
    topic_i,          \* the place in ug_json of the loop of line 268
    body_content,     \* lines 265-267
    toc_content,
    href_content,
    fetches,          \* the content requests issued so far, in order
    html,             \* the populated main template (line 275)
    soup_a,           \* the a elements of soup (line 298), in document order
    link_i,           \* the place of the loop of line 345 in its selection
    soup_box,         \* the other elements of soup that the script selects
    webpage_links,    \* the link elements of the online page (line 380)
    sheet_i,          \* the place of the loop of line 380
    css_screen,       \* lines 375-378
    css_print,
    css_resources,
    soup_img,         \* the img elements of soup (line 422)
    img_i,            \* the place of the loop of line 422
    res_i,            \* the place of the loop of line 436
    files,            \* the paths, relative to subfolder, that are files
    downloads,        \* the calls of download_file so far, in order
    template_str,     \* the arguments of a call of replace_in_template
    dict_replace,
    replaced          \* what that call returned

inputs == <<ug_json, crash_on_error, toc_position, extend_mode, r2_url, webpage_links>>
assembly == <<stack, topic_i, body_content, toc_content, href_content>>
document == <<html, soup_a, link_i, soup_box>>
stylesheets == <<sheet_i, css_screen, css_print, css_resources>>
resources == <<soup_img, img_i, res_i, files, downloads>>

substitution == <<template_str, dict_replace, replaced>>

vars == <<inputs, pc, assembly, fetches, document, stylesheets, resources,
          substitution>>

\* Lines 205-206: the site is in legacy mode when the address the login
\* ended at holds 'legacy'.
BaseUrl == <<"https:", "//userguide.volkswagen.de">>
lang == <<"fr_FR">>
legacy_mode == HasToken(r2_url, "/legacy")
legacy_str == IF legacy_mode THEN <<"/legacy">> ELSE <<>>

\* ------------------------------------------------------------- build_dom

\* A call of build_dom: its arguments, and its locals for a topic with
\* children (i is the place of the next child in the loop of line 90).
Frame(topic, level) ==
    [topic |-> topic, level |-> level, i |-> 1,
     html_body_children |-> <<>>,
     html_toc_children  |-> <<>>,
     html_href_children |-> <<>>]

Top == stack[Len(stack)]

\* Lines 97-109: what build_dom returns for a topic with children, given
\* what the loop over the children accumulated.
InteriorUnit(topic, level, body_children, toc_children, href_children) ==
    LET repl == << <<(<<"TOPIC_ID">>),       topic.nodeId>>,
                   <<(<<"TOPIC_TITLE">>),    topic.label>>,
                   <<(<<"TOPIC_CHILDREN">>), body_children>>,
                   <<(<<"TOC_CHILDREN">>),   toc_children>> >>
        html_body == replace_in_template(templates.topic_w_children, repl)
        html_toc ==
            IF toc_position = "header" /\ level > 0
            THEN replace_in_template(
                     templates.toc_wo_children,
                     DictSet(repl, <<"TOPIC_LINK">>, <<"title">> \o topic.nodeId))
            ELSE replace_in_template(templates.toc_w_children, repl)
    IN  <<html_body, html_toc, href_children>>

\* Lines 134-141: what build_dom returns for a topic without children.
LeafUnit(topic, content, html_href) ==
    LET repl == << <<(<<"TOPIC_ID">>),      topic.nodeId>>,
                   <<(<<"TOPIC_LINK">>),    topic.linkTarget>>,
                   <<(<<"TOPIC_TITLE">>),   topic.label>>,
                   <<(<<"TOPIC_CONTENT">>), content>> >>
    IN  <<replace_in_template(templates.topic_wo_children, repl),
          replace_in_template(templates.toc_wo_children, repl),
          html_href>>

\* The content of a topic whose request failed (line 130).
EmptyPlaceholder == <<"<div></div>">>

\* The stack after the newest call returned unit to a call of build_dom
\* (lines 91-94).
ReturnToParent(unit) ==
    LET parent == stack[Len(stack) - 1]
    IN  Append(SubSeq(stack, 1, Len(stack) - 2),
               [parent EXCEPT
                   !.i = @ + 1,
                   !.html_body_children = @ \o unit[1],
                   !.html_toc_children  = @ \o unit[2],
                   !.html_href_children = DictUpdate(@, unit[3])])

\* build_dom returns unit: to the call that made it (lines 91-94) or to the
\* loop of the top level (lines 269-272).
Return(unit) ==
    IF Len(stack) = 1
    THEN /\ stack' = <<>>
         /\ topic_i' = topic_i + 1
         /\ body_content' = body_content \o unit[1]
         /\ toc_content' = toc_content \o unit[2]
         /\ href_content' = DictUpdate(href_content, unit[3])
    ELSE /\ stack' = ReturnToParent(unit)
         /\ UNCHANGED <<topic_i, body_content, toc_content, href_content>>

\* The topic whose call of build_dom is due: the next topic of the top-level
\* loop (line 269) or the next child of the newest call (line 91).
CallDue ==
    IF stack = <<>>
    THEN topic_i <= Len(ug_json)
    ELSE Top.i <= Len(Top.topic.children)

\* Lines 81-84 and 269, 91: a call of build_dom starts.
BuildDomCall ==
    /\ pc = "assemble"
    /\ CallDue
    /\ stack' = IF stack = <<>>
                THEN <<Frame(ug_json[topic_i], 0)>>
                ELSE Append(stack, Frame(Top.topic.children[Top.i], Top.level + 1))
    /\ UNCHANGED <<substitution, inputs, pc, topic_i, body_content, toc_content, href_content,
                   fetches, document, stylesheets, resources>>

\* The answers the request of line 118 can get; no request, no answer.
NoRequest == [status |-> "none", bodyHtml |-> <<>>, linkState |-> <<>>]

\* Line 116: the topic names a content to load.  A mutant loads one for
\* every topic without children.
FetchAlways(topic) == TRUE

FetchNeeded(topic) == topic.linkTarget # <<>>

\* Line 127: a failed request ends the run.  The mutants take the policy
\* for set, and for unset.
ExitAlways == TRUE

ExitNever == FALSE

ExitOnError == crash_on_error

\* Lines 111-143: build_dom for a topic without children.
BuildDomLeaf ==
    /\ pc = "assemble"
    /\ stack # <<>>
    /\ Len(Top.topic.children) = 0
    /\ \E r \in (IF FetchNeeded(Top.topic) THEN Responses ELSE {NoRequest}) :
          LET topic == Top.topic
              failed == r.status = "HTTPError"
              exits == failed /\ ExitOnError
              raises == r.status = "ok" /\ UnwrapRaises(r.bodyHtml)
              content == IF r.status = "none" \/ exits THEN <<>>
                         ELSE IF failed THEN EmptyPlaceholder
                         ELSE IF raises THEN r.bodyHtml
                         ELSE Unwrap(r.bodyHtml)
              html_href == IF r.status = "ok" /\ ~raises THEN r.linkState
                           ELSE <<>>
              entry == [url |-> BaseUrl \o legacy_str
                                    \o <<"/api/web/V6/topic?", "key=">>
                                    \o topic.linkTarget
                                    \o <<"&displaytype=topic", "&language=">>
                                    \o lang \o <<"&query=undefined">>,
                        key |-> topic.linkTarget, nodeId |-> topic.nodeId,
                        status |-> r.status, linkState |-> r.linkState,
                        content |-> content, html_href |-> html_href]
          IN  /\ fetches' = IF r.status = "none" THEN fetches
                            ELSE Append(fetches, entry)
              /\ IF exits
                 THEN /\ pc' = "exit1"
                      /\ UNCHANGED <<stack, topic_i, body_content, toc_content,
                                     href_content>>
                 ELSE IF raises
                 THEN /\ pc' = "error"
                      /\ UNCHANGED <<stack, topic_i, body_content, toc_content,
                                     href_content>>
                 ELSE /\ pc' = pc
                      /\ Return(LeafUnit(topic, content, html_href))
    /\ UNCHANGED <<substitution, inputs, document, stylesheets, resources>>

\* Lines 96-109 and 143: the loop over the children is over, build_dom
\* returns for a topic with children.
BuildDomMerge ==
    /\ pc = "assemble"
    /\ stack # <<>>
    /\ Len(Top.topic.children) > 0
    /\ Top.i > Len(Top.topic.children)
    /\ Return(InteriorUnit(Top.topic, Top.level, Top.html_body_children,
                           Top.html_toc_children, Top.html_href_children))
    /\ UNCHANGED <<substitution, inputs, pc, fetches, document, stylesheets, resources>>


\* ------------------------------------------------ the links of the document

\* An element of the parsed document is the dictionary of its attributes
\* (Tag.attrs): a function from the names of the attributes it has.
SetAttr(a, k, v) == [x \in DOMAIN a \cup {k} |-> IF x = k THEN v ELSE a[x]]
DelAttr(a, k) == [x \in DOMAIN a \ {k} |-> a[x]]

\* soup.select('a[href^="#"]')
IsFragmentLink(a) == "href" \in DOMAIN a /\ StartsWith(a["href"], <<"#">>)

\* soup.select('a.dynamic-link')
IsDynamicLink(a) == "class" \in DOMAIN a /\ HasToken(a["class"], "dynamic-link")

DynamicLinks(anchors) == SortedSeq({i \in 1..Len(anchors) : IsDynamicLink(anchors[i])})

\* What the script holds at line 275 besides the assembled contents: the
\* language (lang, line 37) and the vehicle (lines 186-191), the chosen manual (line
\* 224), the strings of the welcome page (line 251) and the texts of the
\* spans of the abstract (line 262).
vin == <<"VIN">>
manual == [topicId |-> <<"M">>, title |-> <<"T">>]
strings == ("tab.directory" :> <<"Contents">>) @@ ("label.open.web" :> <<"Open">>)
ug_soup == ("vw-modell-bez" :> <<"Golf">>) @@ ("vw-modell-variante" :> <<"2020">>)

\* Lines 276-287: the dictionary of the main template, in its order.
IndexDict ==
    << <<(<<"LANG_CODE">>),         lang>>,
       <<(<<"VEHICLE_MODEL">>),     ug_soup["vw-modell-bez"]>>,
       <<(<<"VEHICLE_VIN">>),       vin>>,
       <<(<<"TOC_TITLE">>),         strings["tab.directory"]>>,
       <<(<<"TOC_CONTENT">>),       toc_content>>,
       <<(<<"USERGUIDE_ID">>),      manual.topicId>>,
       <<(<<"USERGUIDE_TITLE">>),   manual.title>>,
       <<(<<"USERGUIDE_DATE">>),    ug_soup["vw-modell-variante"]>>,
       <<(<<"USERGUIDE_CONTENT">>), body_content>>,
       <<(<<"OPEN_ONLINE">>),       strings["label.open.web"]>>,
       <<(<<"EXTEND_MODE">>),       <<extend_mode>> >> >>

\* Lines 274-298: the main template is populated and parsed.
PopulateIndex ==
    /\ pc = "assemble"
    /\ stack = <<>>
    /\ topic_i > Len(ug_json)
    /\ html' = replace_in_template(templates.index, IndexDict)
    /\ pc' = "layout"
    /\ UNCHANGED <<substitution, inputs, assembly, fetches, soup_a, link_i, soup_box,
                   stylesheets, resources>>

\* An element of soup_box: its name, the elements it stands in as far as a
\* selector of the script asks, and its attributes.  A class is the list of
\* its tokens, a style the list of its declarations.
Box(name, within, attrs) == [name |-> name, within |-> within, attrs |-> attrs]

HasClass(e, c) == "class" \in DOMAIN e.attrs /\ HasToken(e.attrs["class"], c)
HasId(e, id) == "id" \in DOMAIN e.attrs /\ e.attrs["id"] = id

\* The ids that start with 'title' (line 332: div[id^="title"]).
TitleIds == {"title_n1"}

\* re.sub(pattern, repl, text) on the tokens of text that match pattern.
ReSub(matching, repl, text) ==
    [i \in 1..Len(text) |-> IF text[i] \in matching THEN repl ELSE text[i]]

\* The same with repl = '' on a text whose tokens follow each other.
ReCut(matching, text) == SelectSeq(text, LAMBDA t : t \notin matching)

\* The tokens that match col-md-[0-9]+, top:\s*[0-9]+px\s*;?,
\* overflow-y:\sscroll\s*;? and max-height:\s*[0-9]+px\s*;?
ColMd == {"col-md-3", "col-md-9"}
TopPx == {"top:60px;"}
OverflowScroll == {"overflow-y: scroll;"}
MaxHeightPx == {"max-height:500px;", "max-height:400px;"}

WithAttr(e, k, v) == [e EXCEPT !.attrs = SetAttr(e.attrs, k, v)]

\* Lines 302-305: the body takes the whole width.
Enlarged(e) ==
    IF HasId(e, "resultList")
    THEN WithAttr(e, "class", ReSub(ColMd, "col-md-12", e.attrs["class"]))
    ELSE e

\* Lines 307-309: the treeview is hidden.
Hidden(e) ==
    IF HasId(e, "sideBar")
    THEN WithAttr(e, "class", e.attrs["class"] \o <<"mobileSidebar">>)
    ELSE e

\* Lines 311-327: the treeview goes to the top of the page.
Headed(e) ==
    IF HasId(e, "sideBar")
    THEN WithAttr(
             WithAttr(e, "class",
                      ReSub({"cssSticky"}, "",
                            ReSub(ColMd, "col-md-6", e.attrs["class"]))
                          \o <<"col-md-offset-3">>),
             "style", ReCut(TopPx, e.attrs["style"]))
    ELSE IF HasId(e, "contentTable")
    THEN WithAttr(e, "style",
                  ReCut(MaxHeightPx, ReCut(OverflowScroll, e.attrs["style"])))
    ELSE IF HasId(e, "tabs_sidebar")
    THEN WithAttr(e, "style", ReCut(MaxHeightPx, e.attrs["style"]))
    ELSE IF /\ e.within = "ul.tree > li.toc_entry"
            /\ HasClass(e, "contentTable__panel")
            /\ HasClass(e, "w_children")
    THEN WithAttr(e, "class", e.attrs["class"] \o <<"selected">>)
    ELSE e

\* Lines 331-333: in mode 'all' every chapter is open.
Expanded(e) ==
    IF /\ e.name = "div"
       /\ \/ HasClass(e, "ttchildren")
          \/ (HasClass(e, "tttitle") /\ "id" \in DOMAIN e.attrs
                  /\ e.attrs["id"] \in TitleIds)
    THEN WithAttr(e, "class", e.attrs["class"] \o <<"selected">>)
    ELSE e

\* Lines 300-333 for one element.
Tweaked(e) ==
    LET placed == IF toc_position = "sidebar" THEN e
                  ELSE IF toc_position = "none" THEN Hidden(Enlarged(e))
                  ELSE IF toc_position = "header" THEN Headed(Enlarged(e))
                  ELSE Enlarged(e)
    IN  IF extend_mode = "all" THEN Expanded(placed) ELSE placed

\* Lines 300-333: the place of the table of contents and the open chapters.
TweakLayout ==
    /\ pc = "layout"
    /\ soup_box' = [i \in 1..Len(soup_box) |-> Tweaked(soup_box[i])]
    /\ pc' = "links"
    /\ UNCHANGED <<substitution, inputs, assembly, fetches, html, soup_a, link_i,
                   stylesheets, resources>>

\* A mutant of lines 342-343: the data-goto keeps the leading '#'.
FragmentRewrittenWhole(a) ==
    SetAttr(SetAttr(a, "data-goto", a["href"]), "href", <<"#">>)

\* Lines 342-343 for one link.
FragmentRewritten(a) ==
    SetAttr(SetAttr(a, "data-goto", SliceFrom(a["href"], 1)), "href", <<"#">>)

\* Lines 340-343: the links that point into the document.
RewriteFragmentLinks ==
    /\ pc = "links"
    /\ soup_a' = IF extend_mode # "all"
                 THEN [i \in 1..Len(soup_a) |->
                          IF IsFragmentLink(soup_a[i])
                          THEN FragmentRewritten(soup_a[i])
                          ELSE soup_a[i]]
                 ELSE soup_a
    /\ link_i' = 1
    /\ pc' = "dynamic"
    /\ UNCHANGED <<substitution, inputs, assembly, fetches, html, soup_box, stylesheets,
                   resources>>

\* A mutant of lines 346-353: every mode is handled as 'all' is.
DynamicTargetedAsAll(a) ==
    LET a1 == SetAttr(a, "href", <<"#">>)
    IN  IF "id" \notin DOMAIN a THEN [a |-> a1, raised |-> TRUE]
        ELSE IF a["id"] \in DOMAIN href_content
                /\ href_content[a["id"]].target # None
        THEN [a |-> SetAttr(a, "href", <<"#">> \o href_content[a["id"]].target),
              raised |-> FALSE]
        ELSE [a |-> a1, raised |-> FALSE]

\* Lines 346-353 for one link: the element when the statements are done or
\* one of them raised KeyError, and whether one did.
DynamicTargeted(a) ==
    LET a1 == SetAttr(a, "href", <<"#">>)
    IN  IF "id" \notin DOMAIN a THEN [a |-> a1, raised |-> TRUE]
        ELSE IF extend_mode = "all"
        THEN IF a["id"] \in DOMAIN href_content
                /\ href_content[a["id"]].target # None
             THEN [a |-> SetAttr(a, "href", <<"#">> \o href_content[a["id"]].target),
                   raised |-> FALSE]
             ELSE [a |-> a1, raised |-> FALSE]
        ELSE IF a["id"] \in DOMAIN href_content
             THEN [a |-> SetAttr(a1, "data-goto", href_content[a["id"]].target),
                   raised |-> FALSE]
             ELSE [a |-> a1, raised |-> TRUE]

\* Lines 354-355 for one link.
AttrsStripped(a) ==
    IF "checked-link" \notin DOMAIN a THEN [a |-> a, raised |-> TRUE]
    ELSE IF "data-facets" \notin DOMAIN a
    THEN [a |-> DelAttr(a, "checked-link"), raised |-> TRUE]
    ELSE [a |-> DelAttr(DelAttr(a, "checked-link"), "data-facets"),
          raised |-> FALSE]

\* Lines 346-355 for one link.
DynamicRewritten(a) ==
    LET t == DynamicTargeted(a)
    IN  IF t.raised THEN t ELSE AttrsStripped(t.a)

\* Lines 345-355: one pass of the loop over the links to other topics.
RewriteDynamicLink ==
    /\ pc = "dynamic"
    /\ link_i <= Len(DynamicLinks(soup_a))
    /\ LET at == DynamicLinks(soup_a)[link_i]
           r == DynamicRewritten(soup_a[at])
       IN  /\ soup_a' = [soup_a EXCEPT ![at] = r.a]
           /\ pc' = IF r.raised THEN "error" ELSE pc
    /\ link_i' = link_i + 1
    /\ UNCHANGED <<substitution, inputs, assembly, fetches, html, soup_box, stylesheets,
                   resources>>

\* ------------------------------------------------------- the stylesheets

\* s.rsplit(sep, maxsplit=1)[0], for a one-token sep that s holds: what
\* comes before the last sep.
BeforeLast(s, sep) ==
    LET last == CHOOSE i \in 1..Len(s) :
                    s[i] = sep /\ \A j \in (i + 1)..Len(s) : s[j] # sep
    IN  SubSeq(s, 1, last - 1)

\* Lines 403-406: a reference of a stylesheet without its suffix.
NormalizedPath(rel_path) ==
    LET p1 == IF HasToken(rel_path, "#") THEN BeforeLast(rel_path, "#")
              ELSE rel_path
    IN  IF HasToken(p1, "?") THEN BeforeLast(p1, "?") ELSE p1

\* Lines 401-407: css_resources after the references refs of a stylesheet of
\* directory css_online_dir, the first n of them done.
RECURSIVE ScanUrls(_, _, _, _)
ScanUrls(res, css_online_dir, refs, n) ==
    IF n = 0 THEN res
    ELSE LET before == ScanUrls(res, css_online_dir, refs, n - 1)
             rel_path == NormalizedPath(refs[n])
         IN  IF StartsWith(refs[n], <<"data:">>) THEN before
             ELSE DictSet(before, rel_path, css_online_dir \o <<"/">> \o rel_path)

\* Lines 380-407: one pass of the loop over the link elements of the online
\* page.  A link element is its attributes 'rel', 'href' and maybe 'media',
\* with the status, the text and the url(...) references of what its href
\* serves.
ProcessStylesheet ==
    /\ pc = "css"
    /\ sheet_i <= Len(webpage_links)
    /\ LET link == webpage_links[sheet_i]
           url == BaseUrl \o link.href
           css_online_dir == BeforeLast(url, "/")
           is_print == "media" \in DOMAIN link /\ link.media = "print"
       IN  IF link.rel # "stylesheet"
           THEN UNCHANGED <<pc, css_screen, css_print, css_resources>>
           ELSE IF link.status_code # 200
           THEN /\ pc' = "exit5"
                /\ UNCHANGED <<css_screen, css_print, css_resources>>
           ELSE /\ pc' = pc
                /\ css_print' = IF is_print
                                THEN css_print \o link.text \o <<"\n\n">>
                                ELSE css_print
                /\ css_screen' = IF is_print THEN css_screen
                                 ELSE css_screen \o link.text \o <<"\n\n">>
                /\ css_resources' = ScanUrls(css_resources, css_online_dir,
                                             link.urls, Len(link.urls))
    /\ sheet_i' = sheet_i + 1
    /\ UNCHANGED <<substitution, inputs, assembly, fetches, document, resources>>

\* str() of an element: its name and its attributes sorted by name, each
\* with its value (a class by its tokens, None by nothing).
AttrNames == <<"checked-link", "class", "data-content", "data-facets", "data-goto",
               "data-src", "data-toggle", "href", "id", "src", "style">>

AttrText(a, k) ==
    IF k \notin DOMAIN a THEN <<>>
    ELSE IF k = "id" THEN <<k, "=", a[k]>>
    ELSE IF a[k] = None THEN <<k>>
    ELSE <<k, "=">> \o a[k]

RECURSIVE AttrsText(_, _)
AttrsText(a, n) ==
    IF n = 0 THEN <<>> ELSE AttrsText(a, n - 1) \o AttrText(a, AttrNames[n])

ElementText(name, a) == <<"<", name>> \o AttrsText(a, Len(AttrNames)) \o <<">">>

RECURSIVE ElementsText(_, _, _)
ElementsText(name, elements, n) ==
    IF n = 0 THEN <<>>
    ELSE ElementsText(name, elements, n - 1) \o ElementText(name, elements[n])

RECURSIVE BoxesText(_, _)
BoxesText(boxes, n) ==
    IF n = 0 THEN <<>>
    ELSE BoxesText(boxes, n - 1) \o ElementText(boxes[n].name, boxes[n].attrs)

\* Line 370: str(soup), the populated template with the elements of the
\* document as they are now.  The elements the model keeps apart from the
\* text are written after it, each kind in document order.
SoupText(boxes) ==
    SubSeq(html, 1, Len(html) - 1)
        \o BoxesText(boxes, Len(boxes))
        \o ElementsText("a", soup_a, Len(soup_a))
        \o ElementsText("img", soup_img, Len(soup_img))
        \o SubSeq(html, Len(html), Len(html))

\* Lines 357-360: get_text() of a tooltip, its text without its tags.
TagTokens == {"<b>", "</b>"}
get_text(content) == SelectSeq(content, LAMBDA t : t \notin TagTokens)

Untagged(e) ==
    IF /\ e.name = "span"
       /\ "data-toggle" \in DOMAIN e.attrs
       /\ e.attrs["data-toggle"] = <<"popover">>
    THEN WithAttr(e, "data-content", get_text(e.attrs["data-content"]))
    ELSE e

\* Lines 357-378: the tooltips lose their tags, html becomes the text of the
\* document, the online page is fetched.
FetchWebpage ==
    /\ pc = "dynamic"
    /\ link_i > Len(DynamicLinks(soup_a))
    /\ soup_box' = [i \in 1..Len(soup_box) |-> Untagged(soup_box[i])]
    /\ html' = SoupText(soup_box')
    /\ pc' = "css"
    /\ UNCHANGED <<substitution, inputs, assembly, fetches, soup_a, link_i, stylesheets,
                   resources>>

\* Lines 409-411: the two stylesheets are written.
WriteCss ==
    /\ pc = "css"
    /\ sheet_i > Len(webpage_links)
    /\ files' = files \cup {<<"main.css">>, <<"print.css">>}
    /\ pc' = "images"
    /\ UNCHANGED <<substitution, inputs, assembly, fetches, document, stylesheets, soup_img,
                   img_i, res_i, downloads>>

\* --------------------------------------------------------- the resources

\* s.split(sep): the pieces of s between the occurrences of the token sep.
RECURSIVE SplitOn(_, _)
SplitOn(s, sep) ==
    IF ~HasToken(s, sep) THEN <<s>>
    ELSE LET first == CHOOSE i \in 1..Len(s) :
                         s[i] = sep /\ \A j \in 1..(i - 1) : s[j] # sep
         IN  <<SubSeq(s, 1, first - 1)>> \o SplitOn(SliceFrom(s, first), sep)

\* Lines 423-426
ImageUrl(img) ==
    IF StartsWith(img["data-src"], <<"https:">>) THEN img["data-src"]
    ELSE BaseUrl \o legacy_str \o img["data-src"]

\* A path under the output folder is the list of its names, as pathlib
\* reads it: a token that ends with '/' closes the name of a directory (and
\* a last '/' counts for nothing).
DirName == ("img/" :> "img") @@ ("fonts/" :> "fonts") @@ ("x/" :> "x")

RECURSIVE PathNames(_, _)
PathNames(p, name) ==
    IF p = <<>> THEN (IF name = <<>> THEN <<>> ELSE <<name>>)
    ELSE IF Head(p) \in DOMAIN DirName
    THEN <<Append(name, DirName[Head(p)])>> \o PathNames(Tail(p), <<>>)
    ELSE PathNames(Tail(p), Append(name, Head(p)))

Path(p) == PathNames(p, <<>>)

\* The files and the directories under the output folder: the folder itself
\* (line 237) and the parents that line 164 made for the files written.
FilePaths == {Path(f) : f \in files}

Dirs == UNION {{SubSeq(q, 1, k) : k \in 0..(Len(q) - 1)} : q \in FilePaths \cup {<< <<>> >>}}

\* local_path.is_file() and local_path.is_dir()
IsFile(local_path) == Path(local_path) \in FilePaths
IsDir(local_path) == Path(local_path) \in Dirs

\* A directory above the path is a file: line 164 cannot make the parent.
ParentIsFile(local_path) ==
    \E k \in 1..(Len(Path(local_path)) - 1) :
        SubSeq(Path(local_path), 1, k) \in FilePaths

\* Lines 164-165 raise: mkdir on a file (FileExistsError, NotADirectoryError)
\* or open on a directory (IsADirectoryError).  Only HTTPError is caught.
WriteRaises(local_path) == ParentIsFile(local_path) \/ IsDir(local_path)

\* Lines 159-169: download_file, answered with status.  A failed request
\* writes nothing and the run goes on; an answered one writes the file, or
\* dies at line 164 or 165.
DownloadFile(url, local_filename, status) ==
    /\ downloads' = Append(downloads, [url |-> url, local_path |-> local_filename,
                                       status |-> status])
    /\ files' = IF status = "ok" /\ ~WriteRaises(local_filename)
                THEN files \cup {local_filename} ELSE files
    /\ pc' = IF status = "ok" /\ WriteRaises(local_filename) THEN "error" ELSE pc

\* Lines 429-430 and 438-439: download what is not there.  A mutant
\* downloads whatever the directory holds.
DownloadAlways(url, local_path) ==
    \E status \in {"ok", "HTTPError"} : DownloadFile(url, local_path, status)

DownloadIfMissing(url, local_path) ==
    IF ~IsFile(local_path)
    THEN \E status \in {"ok", "HTTPError"} : DownloadFile(url, local_path, status)
    ELSE UNCHANGED <<files, downloads, pc>>

\* Lines 422-433: one pass of the loop over the images of the document.
DownloadImage ==
    /\ pc = "images"
    /\ img_i <= Len(soup_img)
    /\ LET img == soup_img[img_i]
           url == ImageUrl(img)
           parts == SplitOn(url, "key=")
       IN  IF Len(parts) < 2
           THEN /\ pc' = "error"
                /\ UNCHANGED <<soup_img, files, downloads>>
           ELSE LET filename == parts[2]
                    local_path == <<"img/">> \o filename
                IN  /\ DownloadIfMissing(url, local_path)
                    /\ soup_img' = IF pc' = "error" THEN soup_img
                                   ELSE [soup_img EXCEPT
                                           ![img_i] = SetAttr(img, "src",
                                                              <<"img/">> \o filename)]
    /\ img_i' = img_i + 1
    /\ UNCHANGED <<substitution, inputs, assembly, fetches, document, stylesheets, res_i>>

\* Line 436: the images are done, the loop over css_resources starts.
StartCssResources ==
    /\ pc = "images"
    /\ img_i > Len(soup_img)
    /\ pc' = "cssres"
    /\ UNCHANGED <<substitution, inputs, assembly, fetches, document, stylesheets, resources>>

\* Lines 436-439: one pass of the loop over the resources of the stylesheets.
DownloadCssResource ==
    /\ pc = "cssres"
    /\ res_i <= Len(css_resources)
    /\ LET rel_path == css_resources[res_i][1]
           url == css_resources[res_i][2]
       IN  DownloadIfMissing(url, rel_path)
    /\ res_i' = res_i + 1
    /\ UNCHANGED <<substitution, inputs, assembly, fetches, document, stylesheets,
                   soup_img, img_i>>

\* Lines 441-452: the logo is copied into img/ and index.html is written.
\* Without a directory img/ (no download into it wrote a file, or img is a
\* file) the copy of line 442 raises and nothing more is written.
WriteIndex ==
    /\ pc = "cssres"
    /\ res_i > Len(css_resources)
    /\ IF IsDir(<<"img/">>)
       THEN /\ files' = files \cup {<<"img/", "repo_logo.svg">>, <<"index.html">>}
            /\ pc' = "done"
       ELSE /\ files' = files
            /\ pc' = "error"
    /\ UNCHANGED <<substitution, inputs, assembly, fetches, document, stylesheets, soup_img,
                   img_i, res_i, downloads>>

\* ---------------------------------------------------------------- inputs

SeqsUpTo(S, n) == UNION {[1..m -> S] : m \in 0..n}

\* The a elements a document can hold: a link to a figure, a link out of the
\* manual, and links to other topics as the API marks them (class
\* dynamic-link, the id of the link, checked-link and data-facets), one of
\* them with an href of its own, one with an id no topic gave a target for,
\* one without the checked-link attribute.
FigureLink == "href" :> <<"#", "fig1">>
OutLink == "href" :> <<"https:", "//www.volkswagen.de">>
TopicLink(id) ==
    ("class" :> <<"dynamic-link">>) @@ ("id" :> id)
        @@ ("checked-link" :> <<"true">>) @@ ("data-facets" :> <<"f">>)
AnchorKinds ==
    {FigureLink, OutLink, TopicLink("a1"), TopicLink("a4"),
     TopicLink("a2") @@ ("href" :> <<"#", "old">>),
     DelAttr(TopicLink("a1"), "checked-link")}

\* The img elements: the deferred source is relative to the API or
\* absolute, and names the image after 'key=', or does not.
ImgK1 == "data-src" :> <<"/api/web/image?", "key=", "k1">>
ImgK1Cdn == "data-src" :> <<"https:", "//cdn.volkswagen.de/image?", "key=", "k1">>
ImgK2 == "data-src" :> <<"/api/web/image?", "key=", "k2">>
ImgStatic == "data-src" :> <<"/static/logo.png">>
ImgNoKey == "data-src" :> <<"/api/web/image?", "key=">>
ImgKinds == {ImgK1, ImgK1Cdn, ImgK2, ImgStatic, ImgNoKey}

\* The link elements of the online page, each with what its href serves.
SheetScreen ==
    [rel |-> "stylesheet", href |-> <<"/css", "/", "a.css">>,
     status_code |-> 200, text |-> <<"a{}">>,
     urls |-> << <<"fonts/", "f.woff", "?", "v=1">>, <<"img/", "k1">> >>]
SheetPrint ==
    [rel |-> "stylesheet", href |-> <<"/skin", "/", "p.css">>, media |-> "print",
     status_code |-> 200, text |-> <<"p{}">>,
     urls |-> << <<"fonts/", "f.woff", "#", "iefix">>,
                 <<"data:", "image/png;base64,AAAA">>, <<"print.css">> >>]
SheetGone ==
    [rel |-> "stylesheet", href |-> <<"/css", "/", "gone.css">>,
     status_code |-> 404, text |-> <<>>, urls |-> <<>>]
Favicon ==
    [rel |-> "icon", href |-> <<"/favicon.ico">>,
     status_code |-> 200, text |-> <<>>, urls |-> <<>>]
SheetKinds == {SheetScreen, SheetPrint, SheetGone, Favicon}

\* The addresses the login can end at: the site, or its legacy version.
UrlPlain == BaseUrl \o <<"/w/", "fr_FR", "/">>
UrlLegacy == BaseUrl \o <<"/legacy", "/w/", "fr_FR", "/">>
UrlLegacyLast == BaseUrl \o <<"/w/", "fr_FR", "/legacy">>
LoginUrls == {UrlPlain, UrlLegacy, UrlLegacyLast}

\* The elements of the main template and of the topics that the script
\* selects: the body, the treeview and its tables, a panel of the first
\* level of the treeview and one below, the title and the children of a
\* chapter, and a tooltip.
IndexBoxes ==
    << Box("div", "", ("id" :> "resultList") @@ ("class" :> <<"col-md-9">>)),
       Box("div", "", ("id" :> "sideBar") @@ ("class" :> <<"col-md-3", "cssSticky">>)
                          @@ ("style" :> <<"top:60px;">>)),
       Box("div", "", ("id" :> "contentTable")
                          @@ ("style" :> <<"overflow-y: scroll;", "max-height:500px;">>)),
       Box("div", "", ("id" :> "tabs_sidebar") @@ ("style" :> <<"max-height:400px;">>)),
       Box("div", "ul.tree > li.toc_entry",
           "class" :> <<"contentTable__panel", "w_children">>),
       Box("div", "ul > li", "class" :> <<"contentTable__panel", "w_children">>),
       Box("div", "", ("id" :> "title_n1") @@ ("class" :> <<"tttitle">>)),
       Box("div", "", "class" :> <<"ttchildren">>),
       Box("span", "", ("data-toggle" :> <<"popover">>)
                           @@ ("data-content" :> <<"<b>", "tip", "</b>">>)) >>

\* A forest of one topic with two children, each with a content key.
SmallForest == MkForest(<<0, 1, 1>>, <<FALSE, TRUE, TRUE>>, 0)

\* The state at line 264: nothing assembled, nothing parsed, an empty subfolder
\* (lines 229-237).
Blank ==
    /\ stack = <<>>
    /\ topic_i = 1
    /\ body_content = <<>>
    /\ toc_content = <<>>
    /\ href_content = <<>>
    /\ fetches = <<>>
    /\ html = <<>>
    /\ link_i = 1
    /\ soup_box = IndexBoxes
    /\ sheet_i = 1
    /\ css_screen = <<>>
    /\ css_print = <<>>
    /\ css_resources = <<>>
    /\ img_i = 1
    /\ res_i = 1
    /\ files = {}
    /\ downloads = <<>>

\* No call of replace_in_template is looked at on its own.
NoSubstitution ==
    /\ template_str = <<>>
    /\ dict_replace = <<>>
    /\ replaced = <<>>

Start == pc = "assemble" /\ Blank /\ NoSubstitution

\* Every forest, policy and placement of the table of contents; one document.
Init ==
    /\ ug_json \in Forests(MaxNodes)
    /\ crash_on_error \in BOOLEAN
    /\ toc_position \in {"sidebar", "header", "none"}
    /\ extend_mode = "all"
    /\ r2_url = UrlPlain
    /\ soup_a = <<FigureLink, TopicLink("a1")>>
    /\ soup_img = <<ImgK2>>
    /\ webpage_links = <<SheetScreen>>
    /\ Start

\* Every document and presentation mode; one forest.
InitLinks ==
    /\ ug_json = SmallForest
    /\ crash_on_error = FALSE
    /\ toc_position \in {"sidebar", "header"}
    /\ extend_mode \in {"all", "single", "toggle"}
    /\ r2_url = UrlPlain
    /\ soup_a \in SeqsUpTo(AnchorKinds, MaxLinks)
    /\ soup_img = <<ImgK2>>
    /\ webpage_links = <<SheetScreen>>
    /\ Start

\* Every set of images and stylesheets; one forest, one document.
InitResources ==
    /\ ug_json = MkForest(<<0, 1>>, <<FALSE, FALSE>>, 0)
    /\ crash_on_error = FALSE
    /\ toc_position = "sidebar"
    /\ extend_mode = "all"
    /\ r2_url \in LoginUrls
    /\ soup_a = <<FigureLink, TopicLink("a1")>>
    /\ soup_img \in SeqsUpTo(ImgKinds, MaxImgs)
    /\ webpage_links \in SeqsUpTo(SheetKinds, MaxSheets)
    /\ Start

\* The url(...) references a stylesheet can hold, of at most n tokens: text,
\* the name of a directory, '#', '?' and the scheme 'data:' in any order (what the pattern of line 401
\* takes is never empty).
RefTokens == {"x", "x/", "#", "?", "data:"}
References(n) == UNION {[1..m -> RefTokens] : m \in 1..n}

\* A stylesheet for the screen with the references urls.
SheetWith(urls) ==
    [rel |-> "stylesheet", href |-> <<"/css", "/", "a.css">>,
     status_code |-> 200, text |-> <<"a{}">>, urls |-> urls]

\* Every list of references of one stylesheet, followed by a stylesheet for
\* the printer; one forest, one document.
InitStylesheets ==
    /\ ug_json = MkForest(<<0, 1>>, <<FALSE, FALSE>>, 0)
    /\ crash_on_error = FALSE
    /\ toc_position = "sidebar"
    /\ extend_mode = "all"
    /\ r2_url = UrlPlain
    /\ soup_a = <<FigureLink, TopicLink("a1")>>
    /\ soup_img = <<ImgK2>>
    /\ \E urls \in SeqsUpTo(References(MaxRefLen), MaxRefs) :
          webpage_links = <<SheetWith(urls), SheetPrint>>
    /\ Start

\* The templates of at most n pieces: text, the placeholders of three keys,
\* and a placeholder whose name starts with the name of a key.
Pieces ==
    {<<"x">>, Mustache(<<"TOPIC_ID">>), Mustache(<<"TOPIC_TITLE">>),
     Mustache(<<"TOPIC_CONTENT">>), Mustache(<<"TOPIC_ID", "_OLD">>)}

RECURSIVE Concat(_)
Concat(ss) == IF ss = <<>> THEN <<>> ELSE Head(ss) \o Concat(Tail(ss))

Templates(n) == {Concat(ps) : ps \in SeqsUpTo(Pieces, n)}

\* The dictionaries of at most n items: distinct keys, in any order of
\* insertion, each with a plain value, an empty one, or one that spells the
\* placeholder of a key.
Keys == {<<"TOPIC_ID">>, <<"TOPIC_TITLE">>, <<"TOPIC_CONTENT">>}
Values == {<<"v">>, <<>>, Mustache(<<"TOPIC_ID">>), Mustache(<<"TOPIC_TITLE">>)}
Dicts(n) ==
    {d \in SeqsUpTo(Keys \X Values, n) :
        \A i, j \in 1..Len(d) : i # j => d[i][1] # d[j][1]}

\* A call of replace_in_template on its own: any template, any dictionary.
InitTemplate ==
    /\ pc = "template"
    /\ template_str \in Templates(MaxPieces)
    /\ dict_replace \in Dicts(MaxItems)
    /\ replaced = <<>>
    /\ ug_json = <<>>
    /\ crash_on_error = FALSE
    /\ toc_position = "sidebar"
    /\ extend_mode = "all"
    /\ r2_url = UrlPlain
    /\ soup_a = <<>>
    /\ soup_img = <<>>
    /\ webpage_links = <<>>
    /\ Blank

\* Lines 151-154: the call returns.
ReplaceInTemplate ==
    /\ pc = "template"
    /\ replaced' = replace_in_template(template_str, dict_replace)
    /\ pc' = "replaced"
    /\ UNCHANGED <<template_str, dict_replace, inputs, assembly, fetches,
                   document, stylesheets, resources>>

NextTemplate == ReplaceInTemplate

Next ==
    \/ BuildDomCall
    \/ BuildDomLeaf
    \/ BuildDomMerge
    \/ PopulateIndex
    \/ TweakLayout
    \/ RewriteFragmentLinks
    \/ RewriteDynamicLink
    \/ FetchWebpage
    \/ ProcessStylesheet
    \/ WriteCss
    \/ DownloadImage
    \/ StartCssResources
    \/ DownloadCssResource
    \/ WriteIndex

Spec == Init /\ [][Next]_vars

SpecLinks == InitLinks /\ [][Next]_vars

SpecResources == InitResources /\ [][Next]_vars

SpecTemplate == InitTemplate /\ [][NextTemplate]_vars

SpecStylesheets == InitStylesheets /\ [][Next]_vars

\* ======================================================= the assembly claims

\* The topics of a forest in document order: depth first, a topic before
\* its children, the children in the order of 'children'.
RECURSIVE PreOrder(_)
PreOrder(topics) ==
    IF topics = <<>> THEN <<>>
    ELSE <<Head(topics)>> \o PreOrder(Head(topics).children)
             \o PreOrder(Tail(topics))

Map(f(_), s) == [i \in 1..Len(s) |-> f(s[i])]

IsLinkedLeaf(topic) == Len(topic.children) = 0 /\ topic.linkTarget # <<>>
NodeIdOf(topic) == topic.nodeId[1]
LinkTargetOf(topic) == topic.linkTarget
KeyOf(entry) == entry.key
IsNodeId(token) == \E i \in 1..Len(IdTok) : IdTok[i] = token

\* The top-level loop has assembled the whole forest.
Assembled == stack = <<>> /\ topic_i > Len(ug_json)

\* The requests that were answered with a content.
Answered == {i \in 1..Len(fetches) : fetches[i].status = "ok"}
Failed == {i \in 1..Len(fetches) : fetches[i].status = "HTTPError"}

IsPrefix(s, t) == Len(s) <= Len(t) /\ SubSeq(t, 1, Len(s)) = s

\* The body holds the topic rendered by the template of the topics without
\* children (opened by "<art>", its id and its key, closed by "</art>"), and
\* the content that ends this rendering is "<div></div>".
RenderedEmpty(t, body) ==
    \E k \in 1..Len(body) :
        /\ StartsWith(SliceFrom(body, k - 1), <<"<art>">> \o t.nodeId \o t.linkTarget)
        /\ \E e \in (k + 1)..Len(body) :
              /\ body[e] = "</art>"
              /\ \A m \in k..(e - 1) : body[m] # "</art>"
              /\ body[e - 1] = "<div></div>"

\* C1: whenever build_dom has returned to the top-level loop and the table of
\* contents is not placed in the header, the node ids found in toc_content
\* are those of the topics assembled so far, each once, in document order
\* (depth first, a topic before its children, children in their order).
C1_TocPreOrder ==
    (toc_position # "header" /\ stack = <<>>)
        => SelectSeq(toc_content, IsNodeId)
             = Map(NodeIdOf, PreOrder(SubSeq(ug_json, 1, topic_i - 1)))

\* C2: once the whole forest is assembled, if the reference maps of the
\* answered requests have pairwise distinct anchor ids, then href_content
\* holds exactly their entries: every anchor id of every map with the target
\* the map gave it, and no other anchor id.
C2_RefMapUnion ==
    (/\ Assembled
     /\ \A i, j \in Answered :
           i # j => DOMAIN fetches[i].linkState \cap DOMAIN fetches[j].linkState = {})
        => /\ DOMAIN href_content = UNION {DOMAIN fetches[i].linkState : i \in Answered}
           /\ \A i \in Answered : \A a \in DOMAIN fetches[i].linkState :
                 href_content[a] = fetches[i].linkState[a]

\* Two topics were answered with different maps of distinct anchor ids, and
\* the forest is assembled.
C2_Witness ==
    /\ Assembled
    /\ \E i, j \in Answered :
          /\ i # j
          /\ fetches[i].linkState # <<>>
          /\ fetches[j].linkState # <<>>
    /\ \A i, j \in Answered :
          i # j => DOMAIN fetches[i].linkState \cap DOMAIN fetches[j].linkState = {}

\* C3: under the tolerant policy (crash_on_error = False) a request that
\* fails with an HTTP error never ends the run with exit status 1; the topic
\* is given the content "<div></div>" and an empty reference map; and once
\* the forest is assembled every topic without children that names a content
\* has been requested, those after a failure included, and the body holds
\* the failed topic rendered around "<div></div>".
C3_TolerantFailure ==
    ~crash_on_error =>
        /\ pc # "exit1"
        /\ \A i \in Failed :
              /\ fetches[i].content = <<"<div></div>">>
              /\ fetches[i].html_href = <<>>
        /\ Assembled =>
              /\ Map(KeyOf, fetches)
                   = Map(LinkTargetOf, SelectSeq(PreOrder(ug_json), IsLinkedLeaf))
              /\ \A t \in {PreOrder(ug_json)[k] : k \in 1..Len(PreOrder(ug_json))} :
                    (\E i \in Failed : fetches[i].nodeId = t.nodeId)
                        => RenderedEmpty(t, body_content)

\* A request failed under the tolerant policy, a later one was answered, and
\* the forest is assembled.
C3_Witness ==
    /\ ~crash_on_error
    /\ Assembled
    /\ \E i \in Failed : \E j \in Answered : i < j

\* C4: under the fatal policy (crash_on_error = True), as soon as a request
\* has failed with an HTTP error the run has ended with exit status 1: the
\* failed request is the last one issued, the calls of build_dom for the
\* failing topic and its ancestors have not returned, the main template is
\* not populated, and no stylesheet, asset or document is written or
\* downloaded.
C4_FatalAborts ==
    (crash_on_error /\ Failed # {}) =>
        /\ pc = "exit1"
        /\ Failed = {Len(fetches)}
        /\ stack # <<>>
        /\ Top.topic.nodeId = fetches[Len(fetches)].nodeId
        /\ topic_i <= Len(ug_json)
        /\ html = <<>>
        /\ files = {}
        /\ downloads = <<>>

\* The run ended with exit status 1 at a topic one level down, with
\* another topic that names a content still to come.
C4_Witness ==
    /\ pc = "exit1"
    /\ Len(stack) = 2
    /\ Len(fetches) < Len(SelectSeq(PreOrder(ug_json), IsLinkedLeaf))

\* C5: the keys of the requests issued so far are, in order, the first keys
\* of the topics without children that name a content, taken in document
\* order; once the forest is assembled they are all of them, each once.
\* (So no topic with children and no topic with an empty linkTarget is
\* requested.)
C5_OneFetchPerLinkedLeaf ==
    LET due == Map(LinkTargetOf, SelectSeq(PreOrder(ug_json), IsLinkedLeaf))
    IN  /\ IsPrefix(Map(KeyOf, fetches), due)
        /\ Assembled => Map(KeyOf, fetches) = due

\* The forest is assembled; it holds a topic with children that names a
\* content, a topic without children that names none, and one that does.
C5_Witness ==
    /\ Assembled
    /\ Len(fetches) = 1
    /\ \E k \in 1..Len(PreOrder(ug_json)) :
          LET t == PreOrder(ug_json)[k]
          IN  Len(t.children) > 0 /\ t.linkTarget # <<>>
    /\ \E k \in 1..Len(PreOrder(ug_json)) :
          LET t == PreOrder(ug_json)[k]
          IN  Len(t.children) = 0 /\ t.linkTarget = <<>>

\* ========================================================== the link claims

\* A step of the loop of line 345: the link it handles, before and after.
LinkStep == pc = "dynamic" /\ link_i' = link_i + 1
LinkBefore == soup_a[DynamicLinks(soup_a)[link_i]]
LinkAfter == soup_a'[DynamicLinks(soup_a)[link_i]]

SameAttr(a, b, k) ==
    /\ k \in DOMAIN a <=> k \in DOMAIN b
    /\ k \in DOMAIN a => a[k] = b[k]

\* C6: a step of the loop over the links to other topics, for a link whose
\* id has an entry in href_content: in mode 'all' it leaves the link with
\* href '#' followed by the entry's target, or '#' alone when the target is
\* None, and with the data-goto it had or had not; in modes 'single' and
\* 'toggle' it leaves it with href '#' and data-goto the entry's target, None
\* when the target is None.
C6_DynamicLinkResolved ==
    [][(/\ LinkStep
        /\ "id" \in DOMAIN LinkBefore
        /\ LinkBefore["id"] \in DOMAIN href_content)
          => LET target == href_content[LinkBefore["id"]].target
             IN  IF extend_mode = "all"
                 THEN /\ LinkAfter["href"] = IF target = None THEN <<"#">>
                                             ELSE <<"#">> \o target
                      /\ SameAttr(LinkBefore, LinkAfter, "data-goto")
                 ELSE /\ LinkAfter["href"] = <<"#">>
                      /\ "data-goto" \in DOMAIN LinkAfter
                      /\ LinkAfter["data-goto"] = target]_vars

\* In mode 'all' the loop has handled a link whose entry has a target, and
\* one whose entry has None.
C6_Witness ==
    /\ extend_mode = "all"
    /\ pc = "dynamic"
    /\ link_i = 3
    /\ \E i, j \in 1..Len(soup_a) :
          /\ IsDynamicLink(soup_a[i])
          /\ soup_a[i]["id"] \in DOMAIN href_content
          /\ href_content[soup_a[i]["id"]].target # None
          /\ soup_a[i]["href"] = <<"#">> \o href_content[soup_a[i]["id"]].target
          /\ IsDynamicLink(soup_a[j])
          /\ soup_a[j]["id"] \in DOMAIN href_content
          /\ href_content[soup_a[j]["id"]].target = None
          /\ soup_a[j]["href"] = <<"#">>

\* C7: a step of the loop over the links to other topics, for a link (with
\* its checked-link and data-facets attributes) whose id has no entry in
\* href_content: in every mode it leaves the link with href '#' and without
\* a data-goto it did not have, and the run goes on.
C7_MissingEntryInert ==
    [][(/\ LinkStep
        /\ "id" \in DOMAIN LinkBefore
        /\ LinkBefore["id"] \notin DOMAIN href_content
        /\ {"checked-link", "data-facets"} \subseteq DOMAIN LinkBefore)
          => /\ LinkAfter["href"] = <<"#">>
             /\ SameAttr(LinkBefore, LinkAfter, "data-goto")
             /\ pc' = "dynamic"]_vars

\* C8: the pass over the links that point into the document (href starting
\* with '#'), for such a link that is not a link to another topic: in modes
\* 'single' and 'toggle' it leaves the link with href '#' and data-goto its
\* former href without the leading '#'; in mode 'all' it leaves the link as
\* it was.  No later step changes a link that is not a link to another topic.
C8_FragmentLinks ==
    [][/\ (pc = "links" /\ pc' = "dynamic") =>
              /\ Len(soup_a') = Len(soup_a)
              /\ \A i \in 1..Len(soup_a) :
                    (IsFragmentLink(soup_a[i]) /\ ~IsDynamicLink(soup_a[i])) =>
                        IF extend_mode \in {"single", "toggle"}
                        THEN /\ soup_a'[i]["href"] = <<"#">>
                             /\ soup_a'[i]["data-goto"] = Tail(soup_a[i]["href"])
                             /\ DOMAIN soup_a'[i] = DOMAIN soup_a[i] \cup {"data-goto"}
                        ELSE soup_a'[i] = soup_a[i]
       /\ pc # "links" =>
              \A i \in 1..Len(soup_a) :
                  ~IsDynamicLink(soup_a[i]) => soup_a'[i] = soup_a[i]]_vars

\* In mode 'toggle' the pass has rewritten the link to the figure, and the
\* document is written.
C8_Witness ==
    /\ extend_mode = "toggle"
    /\ pc = "done"
    /\ \E i \in 1..Len(soup_a) :
          /\ ~IsDynamicLink(soup_a[i])
          /\ "data-goto" \in DOMAIN soup_a[i]
          /\ soup_a[i]["data-goto"] = <<"fig1">>
          /\ soup_a[i]["href"] = <<"#">>

\* ====================================================== the resource claims

\* C9: whenever download_file is called for an image or a resource of a
\* stylesheet, its local path is not a file at that moment; so it is the
\* path of no earlier call that succeeded, and it is neither of the
\* stylesheets written before the downloads.
C9_NoDownloadOfExisting ==
    [][Len(downloads') > Len(downloads) =>
          LET call == downloads'[Len(downloads')]
          IN  /\ Len(downloads') = Len(downloads) + 1
              /\ call.local_path \notin files
              /\ ~IsFile(call.local_path)
              /\ call.local_path \notin {<<"main.css">>, <<"print.css">>}
              /\ \A i \in 1..Len(downloads) :
                    downloads[i].status = "ok"
                        => downloads[i].local_path # call.local_path]_vars

\* Two images of the same local path were reached, the first was downloaded
\* and the second was not; a stylesheet names print.css, which was not
\* downloaded either, and the run is over.
C9_Witness ==
    /\ pc = "done"
    /\ Len(soup_img) = 2
    /\ soup_img[1]["src"] = soup_img[2]["src"]
    /\ soup_img[1]["data-src"] # soup_img[2]["data-src"]
    /\ \E i \in 1..Len(css_resources) : css_resources[i][1] = <<"print.css">>
    /\ \E i \in 1..Len(downloads) :
          downloads[i].local_path = soup_img[1]["src"] /\ downloads[i].status = "ok"

\* ================================================== the substitution claim

\* The template with every placeholder of a key of the dictionary replaced
\* by the value of that key, in one pass from left to right: what is put in
\* is not looked at again.
RECURSIVE Substituted(_, _)
Substituted(s, d) ==
    IF s = <<>> THEN <<>>
    ELSE IF \E i \in 1..Len(d) : StartsWith(s, Mustache(d[i][1]))
    THEN LET i == CHOOSE i \in 1..Len(d) : StartsWith(s, Mustache(d[i][1]))
         IN  d[i][2] \o Substituted(SliceFrom(s, Len(Mustache(d[i][1]))), d)
    ELSE <<s[1]>> \o Substituted(Tail(s), d)

\* C10: replace_in_template returns the template with each placeholder
\* '{{NAME}}' of a key NAME of the dictionary replaced by the value of NAME,
\* the values put in left as they are (a value that spells the placeholder
\* of another key stays as it is), and the placeholders of longer names
\* ('{{TOPIC_ID_OLD}}') left alone.
C10_LiteralSubstitution ==
    pc = "replaced" => replaced = Substituted(template_str, dict_replace)

\* =================================================== the stylesheet claim

\* The step is a pass of the loop of line 380 over a stylesheet that was
\* served.
SheetStep ==
    /\ pc = "css"
    /\ sheet_i' = sheet_i + 1
    /\ webpage_links[sheet_i].rel = "stylesheet"
    /\ webpage_links[sheet_i].status_code = 200

\* A reference without its suffix: what comes before its first '#' or '?'.
Stripped(ref) ==
    IF \E i \in 1..Len(ref) : ref[i] \in {"#", "?"}
    THEN LET first == CHOOSE i \in 1..Len(ref) :
                          /\ ref[i] \in {"#", "?"}
                          /\ \A j \in 1..(i - 1) : ref[j] \notin {"#", "?"}
         IN  SubSeq(ref, 1, first - 1)
    ELSE ref

IsDataRef(ref) == StartsWith(ref, <<"data:">>)

\* C11: a pass of the loop over a served stylesheet records, for every
\* url(...) reference that does not start with 'data:', the reference
\* without its '#...' and '?...' suffix as a local path, which holds neither
\* '#' nor '?', with the directory of the stylesheet, '/' and that same path
\* as its remote URL; and it records nothing else, so nothing for a
\* reference that starts with 'data:'.
C11_CssUrlNormalized ==
    [][SheetStep =>
          LET link == webpage_links[sheet_i]
              css_online_dir == BeforeLast(BaseUrl \o link.href, "/")
              recorded == {Stripped(link.urls[n]) :
                              n \in {k \in 1..Len(link.urls) : ~IsDataRef(link.urls[k])}}
          IN  /\ DictKeys(css_resources') = DictKeys(css_resources) \cup recorded
              /\ \A p \in recorded :
                    /\ ~HasToken(p, "#")
                    /\ ~HasToken(p, "?")
                    /\ \E i \in 1..Len(css_resources') :
                          css_resources'[i] = <<p, css_online_dir \o <<"/">> \o p>>]_vars

====
